---- MODULE Spec2Model ----
(***************************************************************************)
(* A model of agenda-bot's calendar module (src/src/calendar.rs): the      *)
(* Name Parser (parse_promo_name), the Group Expansion Engine (set_events),*)
(* the Day Index Builder (get_sorted_events) and the Feed Client           *)
(* (fetch_events).                                                         *)
(*                                                                         *)
(* Strings are sequences of one-character strings, so that the regular     *)
(* expression search, split("-"), parse::<i8>() and Display are computed   *)
(* character by character, as the code computes them.                      *)
(***************************************************************************)
EXTENDS Integers, Sequences, FiniteSets, TLC

VARIABLES
    \* ---- parse_promo_name / Display round trip
    label,          \* the raw label handed to parse_promo_name
    parsed,         \* Option<Promo> returned for label
    shown,          \* Option<String>: the Display form of the parsed Promo
    reparsed,       \* Option<Promo> returned for the Display form
    parsePc,        \* "idle" | "parse" | "display" | "reparse" | "done"
    \* ---- set_events called over and over on one Day Index
    cohortYear,     \* year of the cohort the labels of this build are about
    cohortDept,     \* department of that cohort
    cohortHalf,     \* half-class digit the cohort's half-class labels name
    current_list,   \* the Day Index: HashMap<Promo, Vec<Event>>
    prev_list,      \* the Day Index before the last set_events call
    passed,         \* the events handed to set_events so far, in feed order
    stdout,         \* the lines set_events printed, in order
    panicked,       \* a set_events call panicked (the build is gone)
    \* ---- get_sorted_events(day)
    day,            \* the NaiveDate asked for (days since 1970-01-01)
    response,       \* what the HTTP GET of this call produces
    dayResult,      \* what get_sorted_events returned
    embed_res,      \* what make_events_embed returned, and for which Promo
    \* ---- concurrent fetch_events callers
    now,            \* Utc::now(), in minutes since 1970-01-01T00:00Z
    remote,         \* what the calendar server answers at the moment
    pc,             \* per caller: "idle" | "awaiting" | "done" | "panicked"
    readAt,         \* per caller: the value of now it read at line 68
    after,          \* per caller: the callers that had returned when it started
    issued,         \* per caller: it issued an HTTP GET
    ret,            \* per caller: the value fetch_events returned
    httpGets,       \* number of HTTP GETs issued so far
    \* ---- event_handler tasks on one tracked schedule message
    edt_msgs,       \* Data.edt_msgs[message_id]: the (NaiveDate, Promo) stored
    emoji,          \* per reaction: the emoji the user added
    handlerPc,      \* per reaction: where its event_handler task stands
    handlerDate,    \* per reaction: the local `date` of its task
    handlerPromo,   \* per reaction: the local `promo` of its task
    \* ---- the event_type expression of fetch_events
    eventSummary,   \* the SUMMARY of a component
    event_type      \* Option: the EventType computed for it, or a panic

parseVars  == <<label, parsed, shown, reparsed, parsePc>>
expandVars == <<cohortYear, cohortDept, cohortHalf, current_list, prev_list,
                passed, stdout, panicked>>
dayVars    == <<day, response, dayResult, embed_res>>
fetchVars  == <<now, remote, pc, readAt, after, issued, ret, httpGets>>
reactVars  == <<edt_msgs, emoji, handlerPc, handlerDate, handlerPromo>>
typeVars   == <<eventSummary, event_type>>
vars       == <<parseVars, expandVars, dayVars, fetchVars, reactVars, typeVars>>

-----------------------------------------------------------------------------
(* Option<T> *)
None == [some |-> FALSE]
Some(v) == [some |-> TRUE, val |-> v]

(* Result<T, String> and a panic (an .expect()/.unwrap()/index fault) *)
Ok(v) == [kind |-> "Ok", val |-> v]
Err(e) == [kind |-> "Err", err |-> e]
Panic(m) == [kind |-> "Panic", msg |-> m]

-----------------------------------------------------------------------------
(* Characters *)
Upper ==
    {"A","B","C","D","E","F","G","H","I","J","K","L","M",
     "N","O","P","Q","R","S","T","U","V","W","X","Y","Z"}
DigitChars == <<"0","1","2","3","4","5","6","7","8","9">>
Digits == {DigitChars[i] : i \in 1..10}
DigitVal(c) == (CHOOSE i \in 1..10 : DigitChars[i] = c) - 1
D14 == {"1","2","3","4"}
D12 == {"1","2"}

(* str::starts_with *)
StartsWith(s, c) == Len(s) >= 1 /\ s[1] = c

(* str::split("-"): the pieces between the separators, empty pieces kept *)
RECURSIVE SplitFrom(_, _, _, _)
SplitFrom(s, i, cur, acc) ==
    IF i > Len(s) THEN Append(acc, cur)
    ELSE IF s[i] = "-" THEN SplitFrom(s, i + 1, <<>>, Append(acc, cur))
    ELSE SplitFrom(s, i + 1, Append(cur, s[i]), acc)
Split(s) == SplitFrom(s, 1, <<>>, <<>>)

(* the value of a digit string, most significant digit first *)
RECURSIVE DigitsValue(_, _, _)
DigitsValue(s, i, acc) ==
    IF i > Len(s) THEN acc ELSE DigitsValue(s, i + 1, acc * 10 + DigitVal(s[i]))

I8Min == -128
I8Max == 127

(* str::parse::<i8>(): an optional sign, then one or more digits, the value
   inside i8; anything else is an Err (None here). *)
ParseI8(s) ==
    LET signed == Len(s) >= 1 /\ s[1] \in {"+", "-"}
        body == IF signed THEN SubSeq(s, 2, Len(s)) ELSE s
        neg == signed /\ s[1] = "-"
    IN  IF body = <<>> \/ \E i \in 1..Len(body) : body[i] \notin Digits
        THEN None
        ELSE IF Len(body) > 4 THEN None  \* four digits are already outside i8
        ELSE LET v == IF neg THEN 0 - DigitsValue(body, 1, 0)
                      ELSE DigitsValue(body, 1, 0)
             IN  IF v < I8Min \/ v > I8Max THEN None ELSE Some(v)

(* the decimal text of an integer, as {} formats an i8 *)
RECURSIVE NatChars(_)
NatChars(n) ==
    IF n < 10 THEN <<DigitChars[n + 1]>>
    ELSE Append(NatChars(n \div 10), DigitChars[(n % 10) + 1])
IntChars(n) == IF n < 0 THEN <<"-">> \o NatChars(0 - n) ELSE NatChars(n)

-----------------------------------------------------------------------------
(* Department and its names (Display for Promo, parse_promo_name) *)
Department == {"INFO", "GEII", "RT"}
DeptChars(d) ==
    CASE d = "INFO" -> <<"I","N","F","O">>
      [] d = "GEII" -> <<"G","E","I","I">>
      [] d = "RT"   -> <<"R","T">>

(* Promo { year, deparment, group } *)
Promo(y, d, g) == [year |-> y, deparment |-> d, group |-> g]

(* impl Display for Promo: "{year}-{department}-{group}" *)
Display(p) ==
    IntChars(p.year) \o <<"-">> \o DeptChars(p.deparment) \o <<"-">> \o IntChars(p.group)

(* GROUP_REGEX = "[1-4]-[A-Z]*-((S[1-4])|([1-4])|([1-4][1-2]))", matched at
   position i of s. *)
GroupTokenAt(s, p) ==
    \/ p + 1 <= Len(s) /\ s[p] = "S" /\ s[p + 1] \in D14
    \/ p <= Len(s) /\ s[p] \in D14
    \/ p + 1 <= Len(s) /\ s[p] \in D14 /\ s[p + 1] \in D12
GroupRegexAt(s, i) ==
    /\ i + 1 <= Len(s)
    /\ s[i] \in D14
    /\ s[i + 1] = "-"
    /\ \E k \in (i + 2)..Len(s) :
          /\ \A m \in (i + 2)..(k - 1) : s[m] \in Upper
          /\ s[k] = "-"
          /\ GroupTokenAt(s, k + 1)

(* Regex::is_match: an unanchored search, the match may start anywhere *)
GroupRegexUnanchored(s) == \E i \in 1..Len(s) : GroupRegexAt(s, i)
GROUP_REGEX_is_match(s) == GroupRegexUnanchored(s)

(* parse_promo_name *)
parse_promo_name_session_digit(name) ==
    IF ~GROUP_REGEX_is_match(name) THEN None
    ELSE LET split == Split(name)
             year == ParseI8(split[1])
         IN  IF ~year.some THEN None
             ELSE IF \A d \in Department : DeptChars(d) # split[2] THEN None
             ELSE LET department == CHOOSE d \in Department : DeptChars(d) = split[2]
                      g == ParseI8(IF StartsWith(split[3], "S") THEN Tail(split[3])
                                   ELSE split[3])
                  IN  IF ~g.some THEN None
                      ELSE Some(Promo(year.val, department, g.val))
parse_promo_name(name) ==
    IF ~GROUP_REGEX_is_match(name) THEN None
    ELSE LET split == Split(name)
             year == ParseI8(split[1])
         IN  IF ~year.some THEN None
             ELSE IF \A d \in Department : DeptChars(d) # split[2] THEN None
             ELSE LET department == CHOOSE d \in Department : DeptChars(d) = split[2]
                  IN  IF StartsWith(split[3], "S")
                      THEN Some(Promo(year.val, department, 0))
                      ELSE LET g == ParseI8(split[3])
                           IN  IF ~g.some THEN None
                               ELSE Some(Promo(year.val, department, g.val))

-----------------------------------------------------------------------------
(* Time.  An instant is a number of minutes since 1970-01-01T00:00Z; a
   NaiveDate is a number of days since 1970-01-01.  The model's events lie
   around 2024-03-30 (day 19812) and 2024-03-31, the day Europe/Paris went
   from UTC+1 to UTC+2 at 01:00Z. *)
MinutesPerDay == 1440
Epoch == 19812 * MinutesPerDay
DstStart == Epoch + MinutesPerDay + 60

(* Paris.from_utc_datetime: the civil offset of Europe/Paris at instant t *)
ParisOffset(t) == IF t < DstStart THEN 60 ELSE 120

(* DateTime<Tz>::date_naive: the local civil date of instant t *)
date_naive(t) == (t + ParisOffset(t)) \div MinutesPerDay

(* the local time of day of instant t, in minutes after local midnight *)
LocalMinuteOfDay(t) == (t + ParisOffset(t)) % MinutesPerDay

(* Event: summary stands for the entry's own fields (its place in the feed),
   start and end are instants, group is the raw label. *)
Event(id, s, e, g) == [summary |-> id, start |-> s, end |-> e, group |-> g]

-----------------------------------------------------------------------------
(* HashMap<Promo, Vec<Event>> *)
EmptyMap == [p \in {} |-> <<>>]
MapInsert(m, k, v) == [p \in (DOMAIN m) \cup {k} |-> IF p = k THEN v ELSE m[p]]
MapGet(m, k) == IF k \in DOMAIN m THEN m[k] ELSE <<>>
Range(s) == {s[i] : i \in 1..Len(s)}

(* Vec::sort_by(|a, b| a.start.partial_cmp(&b.start)): a stable sort.  Each
   element goes after every element already placed whose start is not
   greater. *)
InsertAfterEqual(sorted, e) ==
    LET k == Cardinality({i \in 1..Len(sorted) : sorted[i].start <= e.start})
    IN  SubSeq(sorted, 1, k) \o <<e>> \o SubSeq(sorted, k + 1, Len(sorted))
InsertBeforeEqual(sorted, e) ==
    LET k == Cardinality({i \in 1..Len(sorted) : sorted[i].start < e.start})
    IN  SubSeq(sorted, 1, k) \o <<e>> \o SubSeq(sorted, k + 1, Len(sorted))
RECURSIVE StableSortFrom(_, _, _)
StableSortFrom(v, i, acc) ==
    IF i > Len(v) THEN acc ELSE StableSortFrom(v, i + 1, InsertAfterEqual(acc, v[i]))
RECURSIVE UnstableSortFrom(_, _, _)
UnstableSortFrom(v, i, acc) ==
    IF i > Len(v) THEN acc ELSE UnstableSortFrom(v, i + 1, InsertBeforeEqual(acc, v[i]))
sort_by_unstable(v) == UnstableSortFrom(v, 1, <<>>)
sort_by_skipped(v) == v
sort_by_start(v) == StableSortFrom(v, 1, <<>>)

(* get the bucket or an empty Vec, push the clone, sort, insert
   (lines 175-183 and their five repetitions) *)
push_skipped(list, promo, event) == MapInsert(list, promo, MapGet(list, promo))
push_sorted(list, promo, event) ==
    MapInsert(list, promo, sort_by_start(Append(MapGet(list, promo), event)))

RECURSIVE InsertAll(_, _, _, _)
InsertAll(list, promos, i, event) ==
    IF i > Len(promos) THEN list
    ELSE InsertAll(push_sorted(list, promos[i], event), promos, i + 1, event)

(* format!("{}{}", prefix, j).parse::<i8>() for j in 1..3 *)
SubdivisionGroups(prefix) == [j \in 1..2 |-> ParseI8(prefix \o IntChars(j))]

(* the session branch (lines 169-208): for i in 1..5 { for j in 1..3 { "ij" }
   then i }, then the parsed promo itself.  A sequence of Option<i8>. *)
RECURSIVE SessionGroupsFrom(_, _)
SessionGroupsFrom(i, hi) ==
    IF i > hi THEN <<>>
    ELSE SubdivisionGroups(IntChars(i)) \o <<Some(i)>> \o SessionGroupsFrom(i + 1, hi)
SessionGroupsShort(promo) == SessionGroupsFrom(1, 3) \o <<Some(promo.group)>>
SessionGroups(promo) == SessionGroupsFrom(1, 4) \o <<Some(promo.group)>>

(* the half-class branch (lines 219-244): for i in 1..3 { group_name ++ i },
   then the parsed promo itself *)
HalfClassGroupsOneChild(promo, group_name) ==
    <<ParseI8(group_name \o IntChars(1))>> \o <<Some(promo.group)>>
HalfClassGroups(promo, group_name) ==
    SubdivisionGroups(group_name) \o <<Some(promo.group)>>

(* the groups one call files the event under, in insertion order *)
TargetGroupsWithParent(promo, group_name) ==
    IF StartsWith(group_name, "S") THEN SessionGroups(promo)
    ELSE IF Len(group_name) = 2 THEN <<ParseI8(<<group_name[1]>>), Some(promo.group)>>
    ELSE IF Len(group_name) = 1 THEN HalfClassGroups(promo, group_name)
    ELSE <<>>
TargetGroups(promo, group_name) ==
    IF StartsWith(group_name, "S") THEN SessionGroups(promo)
    ELSE IF Len(group_name) = 2 THEN <<Some(promo.group)>>
    ELSE IF Len(group_name) = 1 THEN HalfClassGroups(promo, group_name)
    ELSE <<>>

(* set_events(name, event, current_list): the new map, what was printed and
   whether the call panicked (split[2] out of range, or an unwrap of a
   failed parse). *)
SetEventsResult(list, out, panic) == [list |-> list, out |-> out, panic |-> panic]
set_events_index_first(name, event, list) ==
    LET split == Split(name)
        promo == parse_promo_name(name)
    IN  IF Len(split) < 3 THEN SetEventsResult(list, <<>>, TRUE)
        ELSE IF ~promo.some THEN SetEventsResult(list, <<name>>, FALSE)
        ELSE LET groups == TargetGroups(promo.val, split[3])
                 promos == [i \in 1..Len(groups) |->
                               Promo(promo.val.year, promo.val.deparment, groups[i].val)]
             IN  SetEventsResult(InsertAll(list, promos, 1, event), <<>>, FALSE)
set_events(name, event, list) ==
    LET split == Split(name)
        promo == parse_promo_name(name)
    IN  IF ~promo.some THEN SetEventsResult(list, <<name>>, FALSE)
        ELSE IF Len(split) < 3 THEN SetEventsResult(list, <<>>, TRUE)
        ELSE LET groups == TargetGroups(promo.val, split[3])
             IN  IF \E i \in 1..Len(groups) : ~groups[i].some
                 THEN SetEventsResult(list, <<>>, TRUE)
                 ELSE LET promos == [i \in 1..Len(groups) |->
                                        Promo(promo.val.year, promo.val.deparment,
                                              groups[i].val)]
                      IN  SetEventsResult(InsertAll(list, promos, 1, event), <<>>, FALSE)

-----------------------------------------------------------------------------
(* static CALENDAR_CACHE: (i64, Vec<Event>) = (0, Vec::new()).  An immutable
   static: no code writes it. *)
CALENDAR_CACHE == [fetched_at |-> 0, events |-> <<>>]

(* the freshness window 1000 * 60 * 10 ms, in minutes *)
FreshMinutes == 10

(* line 69: now - CALENDAR_CACHE.0 < 1000 * 60 * 10, with now in minutes *)
CacheIsFresh(t) == t - CALENDAR_CACHE.fetched_at < FreshMinutes

(* lines 85-113: the properties each component is searched for, in the
   order of the searches, and the message of the .expect() of each search *)
MandatoryProperties == <<"SUMMARY", "DTSTART", "DTEND", "LOCATION", "DESCRIPTION">>
ExpectMessage(p) ==
    CASE p = "SUMMARY" -> "Failed to find summary"
      [] p = "DTSTART" -> "Failed to find start"
      [] p = "DTEND" -> "Failed to find end"
      [] p = "LOCATION" -> "Failed to find location"
      [] p = "DESCRIPTION" -> "Failed to find description"
FirstMissing(lacks) ==
    MandatoryProperties[CHOOSE i \in 1..Len(MandatoryProperties) :
                            /\ MandatoryProperties[i] \in lacks
                            /\ \A j \in 1..(i - 1) : MandatoryProperties[j] \notin lacks]

(* lines 73-156: what fetch_events makes of the answer to its GET.  A failed
   request or an unreadable body hits an .expect() and panics; a document
   read_calendar rejects is an Err; a document with a component that lacks a
   mandatory property panics at the .expect() of the first search that finds
   nothing; a well-formed one yields its events in feed order. *)
FetchedFrom(resp) ==
    CASE resp.kind = "transport_error" -> Panic("Failed to fetch calendar!")
      [] resp.kind = "unparsable" -> Err("Failed to parse calendar!")
      [] resp.kind = "incomplete" -> Panic(ExpectMessage(FirstMissing(resp.lacks)))
      [] resp.kind = "ok" -> Ok(resp.events)

(* fetch_events, as one call that meets answer resp at time t *)
fetch_events(t, resp) ==
    IF CacheIsFresh(t) THEN Ok(CALENDAR_CACHE.events) ELSE FetchedFrom(resp)

(* lines 255-257: the filter of get_sorted_events *)
DayFilter(e, d) == date_naive(e.start) >= d /\ date_naive(e.end) < d + 1

RECURSIVE SelectEvents(_, _, _)
SelectEvents(events, i, d) ==
    IF i > Len(events) THEN <<>>
    ELSE (IF DayFilter(events[i], d) THEN <<events[i]>> ELSE <<>>)
         \o SelectEvents(events, i + 1, d)

(* lines 253-261: set_events for each event that passed the filter, in feed
   order, on one map; a panic ends the loop *)
RECURSIVE ExpandAll(_, _, _)
ExpandAll(events, i, acc) ==
    IF i > Len(events) \/ acc.panic THEN acc
    ELSE LET r == set_events(events[i].group, events[i], acc.list)
         IN  ExpandAll(events, i + 1, SetEventsResult(r.list, acc.out \o r.out, r.panic))

(* get_sorted_events(day), given what fetch_events returned: the value it
   returns and the lines printed on the way *)
get_sorted_events(d, res) ==
    IF res.kind = "Ok"
    THEN LET built == ExpandAll(SelectEvents(res.val, 1, d), 1,
                                SetEventsResult(EmptyMap, <<>>, FALSE))
         IN  [value |-> IF built.panic THEN Panic("set_events") ELSE Ok(built.list),
              out |-> built.out]
    ELSE [value |-> res, out |-> <<>>]

(* A summary is a sequence of characters; EAcute stands for U+00E9, which
   takes two bytes in UTF-8, every other character of the model takes one. *)
EAcute == "e_acute"
ByteWidth(c) == IF c = EAcute THEN 2 ELSE 1
RECURSIVE ByteLen(_, _)
ByteLen(s, n) == IF n = 0 THEN 0 ELSE ByteLen(s, n - 1) + ByteWidth(s[n])

(* &s[a..b]: the characters that lie in bytes a..b-1; a panic when b is past
   the end or when a or b is not on a character boundary *)
ByteSlice(s, a, b) ==
    LET bounds == {ByteLen(s, n) : n \in 0..Len(s)}
    IN  IF a \notin bounds \/ b \notin bounds THEN Panic("byte index")
        ELSE Ok(SubSeq(s, (CHOOSE n \in 0..Len(s) : ByteLen(s, n) = a) + 1,
                          CHOOSE n \in 0..Len(s) : ByteLen(s, n) = b))

(* CLASS_TYPE_REGEX = "(S|R)[1-9].[0-9][0-9](-|_)(CM|TD|TP)", matched at
   character i of s; the dot is any character but a line feed *)
D19 == Digits \ {"0"}
TypeCodes == {<<"C", "M">>, <<"T", "D">>, <<"T", "P">>}
ClassTypeRegexAt(s, i) ==
    /\ i + 7 <= Len(s)
    /\ s[i] \in {"S", "R"}
    /\ s[i + 1] \in D19
    /\ s[i + 2] # "\n"
    /\ s[i + 3] \in Digits
    /\ s[i + 4] \in Digits
    /\ s[i + 5] \in {"-", "_"}
    /\ SubSeq(s, i + 6, i + 7) \in TypeCodes

(* Regex::is_match: an unanchored search *)
CLASS_TYPE_REGEX_is_match(s) == \E i \in 1..Len(s) : ClassTypeRegexAt(s, i)

(* lines 139-144: match event_type { "TD" => .., "TP" => .., "CM" => .., _ => OTHER } *)
EventTypeOf(code) ==
    CASE code = <<"T", "D">> -> "TD"
      [] code = <<"T", "P">> -> "TP"
      [] code = <<"C", "M">> -> "CM"
      [] OTHER -> "OTHER"

(* lines 137-147: the event_type of a component with this summary *)
classify(s) ==
    IF CLASS_TYPE_REGEX_is_match(s)
    THEN LET sliced == ByteSlice(s, 6, 8)
         IN  IF sliced.kind = "Panic" THEN sliced ELSE Ok(EventTypeOf(sliced.val))
    ELSE Ok("OTHER")

(* make_events_embed(group, day) of main.rs, given what get_sorted_events
   returned: the error text of a failed build, the "no events" text for an
   empty map, else the embed whose fields are events[&group], an index that
   panics when the map has no such key. *)
make_events_embed(group, d, events) ==
    IF events.kind = "Panic" THEN events
    ELSE IF events.kind = "Err" THEN Err(<<"Error: ", events.err>>)
    ELSE IF Cardinality(DOMAIN events.val) = 0
         THEN Err(<<"There are no events for ", group, d>>)
    ELSE IF group \notin DOMAIN events.val THEN Panic("events[&group]")
    ELSE Ok([title |-> group, timestamp |-> d, fields |-> events.val[group]])

-----------------------------------------------------------------------------
(* Bounds of the model *)
MaxEvents == 3          \* set_events calls in one Day Index build
MaxFeed == 2            \* events in a fetched feed
NCallers == 2           \* concurrent fetch_events callers
MaxTicks == 3           \* clock steps
TickMinutes == 4        \* minutes per clock step
NReactions == 2         \* reactions users add to the tracked message

Years == 1..4
Halves == 1..4
Callers == 1..NCallers
Reactions == 1..NReactions

(* the entry edt() stored for the tracked message (main.rs line 160) *)
TrackedDate == Epoch \div MinutesPerDay
TrackedPromo == Promo(1, "INFO", 21)

-----------------------------------------------------------------------------
(* The parts of the state a specification does not use stay at these values *)
ParseIdle ==
    /\ label = <<>>
    /\ parsed = None
    /\ shown = None
    /\ reparsed = None
    /\ parsePc = "idle"
ExpandIdle ==
    /\ cohortYear = 1
    /\ cohortDept = "INFO"
    /\ cohortHalf = 1
    /\ current_list = EmptyMap
    /\ prev_list = EmptyMap
    /\ passed = <<>>
    /\ stdout = <<>>
    /\ panicked = FALSE
DayIdle ==
    /\ day = 0
    /\ response = [kind |-> "none"]
    /\ dayResult = None
    /\ embed_res = None
FetchIdle ==
    /\ now = Epoch
    /\ remote = [kind |-> "none"]
    /\ pc = [c \in Callers |-> "idle"]
    /\ readAt = [c \in Callers |-> 0]
    /\ after = [c \in Callers |-> {}]
    /\ issued = [c \in Callers |-> FALSE]
    /\ ret = [c \in Callers |-> None]
    /\ httpGets = 0

TypeIdle ==
    /\ eventSummary = <<>>
    /\ event_type = None
ReactIdle ==
    /\ edt_msgs = [date |-> TrackedDate, promo |-> TrackedPromo]
    /\ emoji = [r \in Reactions |-> "none"]
    /\ handlerPc = [r \in Reactions |-> "idle"]
    /\ handlerDate = [r \in Reactions |-> 0]
    /\ handlerPromo = [r \in Reactions |-> None]

-----------------------------------------------------------------------------
(* Spec: one Day Index build, set_events called once per event of the feed
   (the loop of get_sorted_events, lines 253-261), on labels about one cohort
   (year, department, half-class) and one label of another year. *)
Dash == <<"-">>
LabelOf(y, d, tok) == IntChars(y) \o Dash \o DeptChars(d) \o Dash \o tok
CohortLabel(tok) == LabelOf(cohortYear, cohortDept, tok)
SessionLabel1 == CohortLabel(<<"S", "1">>)
SessionLabel2 == CohortLabel(<<"S", "2">>)
HalfLabel == CohortLabel(IntChars(cohortHalf))
(* the full subgroup the cohort's two-digit label names: h1 for the odd
   years, h2 for the even ones *)
CohortSub == 2 - (cohortYear % 2)
FullLabel == CohortLabel(IntChars(cohortHalf) \o IntChars(CohortSub))
ThreeDigitLabel == CohortLabel(<<"1", "1", "1">>)
MalformedLabel == <<"X", "-", "Y">>
OtherYearLabel == LabelOf((cohortYear % 4) + 1, cohortDept, <<"S", "1">>)
BuildLabels ==
    {SessionLabel1, SessionLabel2, HalfLabel, FullLabel, ThreeDigitLabel,
     MalformedLabel, OtherYearLabel}
StartTimes == {Epoch + 600, Epoch + 720}

(* The events a build may be handed: the cohort's session-2 and half-class
   labels with every start time, the other labels with the first one. *)
TimedLabels == {SessionLabel2, HalfLabel}
BuildInputs ==
    {<<g, t>> : g \in TimedLabels, t \in StartTimes}
    \cup {<<g, Epoch + 600>> : g \in BuildLabels \ TimedLabels}

(* Every year with every department, and every half-class digit with every
   department: year y of the d-th department is paired with half-class
   ((y + d) % 4) + 1. *)
DeptIndex(d) == CASE d = "INFO" -> 0 [] d = "GEII" -> 1 [] d = "RT" -> 2
Cohorts == {<<y, d, ((y + DeptIndex(d)) % 4) + 1>> : y \in Years, d \in Department}

InitExpand ==
    /\ \E c \in Cohorts :
          /\ cohortYear = c[1]
          /\ cohortDept = c[2]
          /\ cohortHalf = c[3]
    /\ current_list = EmptyMap
    /\ prev_list = EmptyMap
    /\ passed = <<>>
    /\ stdout = <<>>
    /\ panicked = FALSE

SetEventsCall ==
    /\ ~panicked
    /\ Len(passed) < MaxEvents
    /\ \E in \in BuildInputs :
        \E evt \in {Event(Len(passed) + 1, in[2], in[2] + 60, in[1])} :
        \E r \in {set_events(evt.group, evt, current_list)} :
              /\ current_list' = r.list
              /\ prev_list' = current_list
              /\ passed' = Append(passed, evt)
              /\ stdout' = stdout \o r.out
              /\ panicked' = r.panic
    /\ UNCHANGED <<cohortYear, cohortDept, cohortHalf>>
    /\ UNCHANGED <<parseVars, dayVars, fetchVars, reactVars, typeVars>>

Init == InitExpand /\ ParseIdle /\ DayIdle /\ FetchIdle /\ ReactIdle /\ TypeIdle
Next == SetEventsCall
Spec == Init /\ [][Next]_vars

-----------------------------------------------------------------------------
(* SpecParse: parse_promo_name on a label, Display of the Promo it returns,
   parse_promo_name on that text. *)
ParseYearToks == {<<"1">>, <<"4">>, <<"5">>, <<"1", "1">>, <<"+", "1">>, <<"X">>, <<>>}
ParseDeptToks == {DeptChars(d) : d \in Department} \cup {<<>>, <<"X", "X">>}
ParseGroupToks ==
    {<<"1">>, <<"2", "1">>, <<"1", "3">>, <<"S", "2">>, <<"S">>, <<"1", "1", "1">>,
     <<"2", "1", "1">>, <<"9">>, <<"0", "4">>, <<"2", "x">>}
ParseTails == {<<>>, <<"-", "2", "-", "X", "-", "3">>}
ParseLabels ==
    {y \o Dash \o d \o Dash \o g \o t :
        y \in ParseYearToks, d \in ParseDeptToks, g \in ParseGroupToks, t \in ParseTails}
    \cup {MalformedLabel, <<>>, <<"1", "-", "R", "T">>}

InitParse ==
    /\ label \in ParseLabels
    /\ parsed = None
    /\ shown = None
    /\ reparsed = None
    /\ parsePc = "parse"

ParseLabel ==
    /\ parsePc = "parse"
    /\ parsed' = parse_promo_name(label)
    /\ parsePc' = IF parsed'.some THEN "display" ELSE "done"
    /\ UNCHANGED <<label, shown, reparsed>>
    /\ UNCHANGED <<expandVars, dayVars, fetchVars, reactVars, typeVars>>

DisplayPromo ==
    /\ parsePc = "display"
    /\ shown' = Some(Display(parsed.val))
    /\ parsePc' = "reparse"
    /\ UNCHANGED <<label, parsed, reparsed>>
    /\ UNCHANGED <<expandVars, dayVars, fetchVars, reactVars, typeVars>>

ReparseShown ==
    /\ parsePc = "reparse"
    /\ reparsed' = parse_promo_name(shown.val)
    /\ parsePc' = "done"
    /\ UNCHANGED <<label, parsed, shown>>
    /\ UNCHANGED <<expandVars, dayVars, fetchVars, reactVars, typeVars>>

NextParse == ParseLabel \/ DisplayPromo \/ ReparseShown
InitParseSpec == InitParse /\ ExpandIdle /\ DayIdle /\ FetchIdle /\ ReactIdle /\ TypeIdle
SpecParse == InitParseSpec /\ [][NextParse]_vars

-----------------------------------------------------------------------------
(* What the last set_events call did to the Day Index *)
LastEvent == passed[Len(passed)]
Keys == (DOMAIN current_list) \cup (DOMAIN prev_list)

(* bucket p is what it was, with event e put in at some place *)
AddedTo(p, e) ==
    /\ p \in DOMAIN current_list
    /\ \E old \in {MapGet(prev_list, p)} :
          \E k \in 1..(Len(old) + 1) :
             current_list[p] = SubSeq(old, 1, k - 1) \o <<e>> \o SubSeq(old, k, Len(old))

(* bucket p is what it was: absent if it was absent, equal if it was there *)
Untouched(p) ==
    IF p \in DOMAIN prev_list
    THEN p \in DOMAIN current_list /\ current_list[p] = prev_list[p]
    ELSE p \notin DOMAIN current_list

SessionBuckets(y, d) ==
    {Promo(y, d, g) : g \in {11, 12, 21, 22, 31, 32, 41, 42, 1, 2, 3, 4, 0}}
HalfClassBuckets(y, d, h) == {Promo(y, d, h), Promo(y, d, 10 * h + 1), Promo(y, d, 10 * h + 2)}

(* C1: one event labelled "Y-D-S2" is added to exactly the 13 buckets of
   Y/D (the eight full subgroups, the four half-classes and group 0), each
   of which grows by that one event; no other bucket changes. *)
C1_SessionFanOut ==
    (passed # <<>> /\ LastEvent.group = SessionLabel2)
    => /\ ~panicked
       /\ Cardinality(SessionBuckets(cohortYear, cohortDept)) = 13
       /\ \A p \in SessionBuckets(cohortYear, cohortDept) : AddedTo(p, LastEvent)
       /\ \A p \in Keys \ SessionBuckets(cohortYear, cohortDept) : Untouched(p)

C1_Witness ==
    /\ Len(passed) = 3
    /\ LastEvent.group = SessionLabel2
    /\ passed[1].group = HalfLabel
    /\ passed[2].group = OtherYearLabel
    /\ Len(current_list[Promo(cohortYear, cohortDept, cohortHalf)]) = 2
    /\ Len(current_list[Promo(cohortYear, cohortDept, 0)]) = 1

(* C2: one event labelled "Y-D-h", h a digit 1..4, is added to the buckets
   of Y-D-h, Y-D-h1 and Y-D-h2 and every other bucket is left as it was. *)
C2_HalfClassFanOut ==
    (passed # <<>> /\ LastEvent.group = HalfLabel)
    => /\ ~panicked
       /\ \A p \in HalfClassBuckets(cohortYear, cohortDept, cohortHalf) :
             AddedTo(p, LastEvent)
       /\ \A p \in Keys \ HalfClassBuckets(cohortYear, cohortDept, cohortHalf) :
             Untouched(p)

C2_Witness ==
    /\ Len(passed) = 2
    /\ passed[1].group = SessionLabel2
    /\ LastEvent.group = HalfLabel
    /\ Cardinality(DOMAIN current_list) = 13
    /\ Len(current_list[Promo(cohortYear, cohortDept, 10 * cohortHalf + 2)]) = 2
    /\ Len(current_list[Promo(cohortYear, cohortDept, 0)]) = 1

(* C3: every bucket of the Day Index is sorted ascending by start. *)
C3_BucketsSorted ==
    \A p \in DOMAIN current_list :
        \A i, j \in 1..Len(current_list[p]) :
            i < j => current_list[p][i].start <= current_list[p][j].start

(* a bucket in which the sort moved an event in front of one fed earlier *)
C3_Witness ==
    \E p \in DOMAIN current_list :
        \E i, j \in 1..Len(current_list[p]) :
            /\ i < j
            /\ current_list[p][i].start < current_list[p][j].start
            /\ current_list[p][i].summary > current_list[p][j].summary

(* the place of an event in the feed: the number of the set_events call
   that was handed it *)
FeedPos(e) == CHOOSE k \in 1..Len(passed) : passed[k] = e

(* C4: two events with the same start keep their feed order in every bucket
   that holds both. *)
C4_SortStable ==
    \A p \in DOMAIN current_list :
        \A i, j \in 1..Len(current_list[p]) :
            (/\ current_list[p][i].start = current_list[p][j].start
             /\ FeedPos(current_list[p][i]) < FeedPos(current_list[p][j]))
            => i < j

(* A and B tie, an earlier event was fed between them, and all three share
   a bucket in which the third stands first *)
C4_Witness ==
    /\ Len(passed) = 3
    /\ passed[1].start = passed[3].start
    /\ passed[2].start < passed[1].start
    /\ \E p \in DOMAIN current_list :
          current_list[p] = <<passed[2], passed[1], passed[3]>>

(* the label's subgroup token is one set_events has a branch for *)
HasBranch(name) ==
    \E split \in {Split(name)} :
        /\ Len(split) >= 3
        /\ StartsWith(split[3], "S") \/ Len(split[3]) \in {1, 2}

(* C7: a call whose label parse_promo_name rejects does not panic and leaves
   the Day Index as it was, and the events of the same build whose labels
   are accepted are filed, also after such a call. *)
C7_MalformedLabelDropped ==
    /\ (passed # <<>> /\ ~parse_promo_name(LastEvent.group).some)
       => (~panicked /\ current_list = prev_list)
    /\ \A i \in 1..Len(passed) :
          \A q \in {parse_promo_name(passed[i].group)} :
              (q.some /\ HasBranch(passed[i].group))
              => /\ q.val \in DOMAIN current_list
                 /\ passed[i] \in Range(current_list[q.val])

C7_Witness ==
    /\ Len(passed) = 3
    /\ passed[1].group = FullLabel
    /\ passed[2].group = MalformedLabel
    /\ passed[3].group = HalfLabel
    /\ ~panicked
    /\ DOMAIN current_list = HalfClassBuckets(cohortYear, cohortDept, cohortHalf)
    /\ Len(current_list[Promo(cohortYear, cohortDept, 10 * cohortHalf + CohortSub)]) = 2

(* C15: no bucket of the Day Index is empty, whatever set_events calls built
   it from the empty map. *)
C15_NoEmptyBucket ==
    \A p \in DOMAIN current_list : current_list[p] # <<>>

(* a build in which a call filed nothing and later calls made 13 buckets *)
C15_Witness ==
    /\ Len(passed) = 3
    /\ passed[1].group = ThreeDigitLabel
    /\ passed[2].group = SessionLabel1
    /\ passed[3].group = FullLabel
    /\ Cardinality(DOMAIN current_list) = 13
    /\ \A p \in DOMAIN current_list : Len(current_list[p]) >= 1

FullBucket == Promo(cohortYear, cohortDept, 10 * cohortHalf + CohortSub)

(* C16: one event labelled "Y-D-hk", h in 1..4 and k in 1..2, is added to the
   bucket of Y-D-hk, which grows by one, and every other bucket, the one of
   Y-D-h included, is left as it was. *)
C16_FullSubgroupSingle ==
    (passed # <<>> /\ LastEvent.group = FullLabel)
    => /\ ~panicked
       /\ AddedTo(FullBucket, LastEvent)
       /\ Len(current_list[FullBucket]) = Len(MapGet(prev_list, FullBucket)) + 1
       /\ \A p \in Keys \ {FullBucket} : Untouched(p)

C16_Witness ==
    /\ Len(passed) = 2
    /\ passed[1].group = HalfLabel
    /\ LastEvent.group = FullLabel
    /\ Len(current_list[Promo(cohortYear, cohortDept, cohortHalf)]) = 1
    /\ Len(current_list[FullBucket]) = 2
    /\ Cardinality(DOMAIN current_list) = 3

(* C18: every event handed to set_events is in some bucket or its label was
   printed. *)
C18_DropsObservable ==
    ~panicked
    => \A i \in 1..Len(passed) :
          \/ \E p \in DOMAIN current_list : passed[i] \in Range(current_list[p])
          \/ passed[i].group \in Range(stdout)

(* the buckets the last call changed *)
Touched == {p \in Keys : ~Untouched(p)}
SessionLabels == {SessionLabel1, SessionLabel2}

(* C19: a call with the label "Y-D-S1" and a call with the label "Y-D-S2"
   change the same 13 buckets of Y/D, both labels parse to the Promo of
   group 0, and every event with either label is in the bucket of group 0. *)
C19_SessionsShareBuckets ==
    /\ (passed # <<>> /\ LastEvent.group \in SessionLabels)
       => /\ Touched = SessionBuckets(cohortYear, cohortDept)
          /\ Cardinality(Touched) = 13
    /\ \A i \in 1..Len(passed) :
          passed[i].group \in SessionLabels
          => /\ parse_promo_name(passed[i].group)
                   = Some(Promo(cohortYear, cohortDept, 0))
             /\ passed[i] \in Range(MapGet(current_list, Promo(cohortYear, cohortDept, 0)))

C19_Witness ==
    /\ Len(passed) = 2
    /\ passed[1].group = SessionLabel1
    /\ passed[2].group = SessionLabel2
    /\ DOMAIN current_list = SessionBuckets(cohortYear, cohortDept)
    /\ \A p \in DOMAIN current_list : Range(current_list[p]) = {passed[1], passed[2]}

-----------------------------------------------------------------------------
(* C10: for every non-session label parse_promo_name accepts, parsing the
   Display form of the Promo it returns gives that Promo again. *)
C10_RoundTrip ==
    (/\ parsePc = "done"
     /\ parsed.some
     /\ ~StartsWith(Split(label)[3], "S"))
    => reparsed = parsed

(* the whole label is <year 1-4>-<known department>-<token>, the token one
   digit 1-4, two digits 1-4, or S and a digit 1-4 *)
WellShaped(s) ==
    \E split \in {Split(s)} :
        /\ Len(split) = 3
        /\ Len(split[1]) = 1 /\ split[1][1] \in D14
        /\ \E d \in Department : DeptChars(d) = split[2]
        /\ \/ Len(split[3]) = 1 /\ split[3][1] \in D14
           \/ Len(split[3]) = 2 /\ split[3][1] \in D14 /\ split[3][2] \in D14
           \/ Len(split[3]) = 2 /\ split[3][1] = "S" /\ split[3][2] \in D14
ShapedGroups == {0} \cup (1..4) \cup {10 * a + b : a \in 1..4, b \in 1..4}

(* C11: parse_promo_name returns a Promo exactly for the labels whose whole
   text has the documented shape, and every Promo it returns has its year in
   1..4 and its group 0, a digit 1..4 or two digits 1..4. *)
C11_ShapeValidated ==
    (parsePc # "parse")
    => /\ parsed.some <=> WellShaped(label)
       /\ parsed.some => /\ parsed.val.year \in 1..4
                         /\ parsed.val.group \in ShapedGroups

-----------------------------------------------------------------------------
(* SpecDay: one get_sorted_events(day) call on what the server answers.  The
   feed's events start and end at these instants, local time Europe/Paris:
   03-30 23:30, 03-31 00:10, 03-31 10:00, 03-31 23:59, 04-01 00:30 and
   04-01 10:00. *)
TimePoints ==
    {Epoch + 1350, Epoch + 1390, Epoch + 1920, Epoch + 2759, Epoch + 2790, Epoch + 3360}
DayLabel == LabelOf(1, "INFO", <<"2", "1">>)
DayEvents ==
    {Event(0, a, b, DayLabel) : a \in TimePoints, b \in TimePoints}
    \cup {Event(0, Epoch + 1920, Epoch + 2759, MalformedLabel)}
(* the feed made of the entries f[1], ..., f[n], each numbered by its place *)
FeedOf(f) == [i \in DOMAIN f |-> [f[i] EXCEPT !.summary = i]]
Days == {Epoch \div MinutesPerDay + k : k \in 0..2}
FailedResponses == {[kind |-> "transport_error"], [kind |-> "unparsable"]}
FetchEvent(n) == Event(n, Epoch + 1920, Epoch + 1980, DayLabel)
FetchFeeds == {<<FetchEvent(1)>>, <<FetchEvent(1), FetchEvent(2)>>}

(* documents in which the component at place `at` lacks the properties
   `lacks`: one of the five, or all of them *)
LackSets ==
    {{MandatoryProperties[i]} : i \in 1..Len(MandatoryProperties)}
    \cup {{MandatoryProperties[i] : i \in 1..Len(MandatoryProperties)}}
IncompleteResponses ==
    UNION {{[kind |-> "incomplete", events |-> f, at |-> i, lacks |-> l] :
               i \in 1..Len(f), l \in LackSets} : f \in FetchFeeds}

InitDay ==
    /\ day \in Days
    /\ \/ response \in FailedResponses
       \/ response \in IncompleteResponses
       \/ \E n \in 0..MaxFeed :
             \E f \in [1..n -> DayEvents] : response = [kind |-> "ok", events |-> FeedOf(f)]
    /\ dayResult = None
    /\ embed_res = None

GetSortedEvents ==
    /\ ~dayResult.some
    /\ \E r \in {get_sorted_events(day, fetch_events(now, response))} :
          /\ dayResult' = Some(r.value)
          /\ stdout' = stdout \o r.out
    /\ UNCHANGED <<day, response, embed_res>>
    /\ UNCHANGED <<cohortYear, cohortDept, cohortHalf, current_list, prev_list,
                   passed, panicked>>
    /\ UNCHANGED <<parseVars, fetchVars, reactVars, typeVars>>

(* the Promos a schedule is asked for: the feed's group and its sibling *)
EmbedGroups == {Promo(1, "INFO", 21), Promo(1, "INFO", 22)}

(* main.rs lines 53-96: make_events_embed(group, day), which calls
   get_sorted_events(day) itself *)
MakeEventsEmbed ==
    /\ ~embed_res.some
    /\ \E group \in EmbedGroups :
        \E r \in {get_sorted_events(day, fetch_events(now, response))} :
          /\ embed_res' = Some([group |-> group,
                                value |-> make_events_embed(group, day, r.value)])
          /\ stdout' = stdout \o r.out
    /\ UNCHANGED <<day, response, dayResult>>
    /\ UNCHANGED <<cohortYear, cohortDept, cohortHalf, current_list, prev_list,
                   passed, panicked>>
    /\ UNCHANGED <<parseVars, fetchVars, reactVars, typeVars>>

NextDay == GetSortedEvents \/ MakeEventsEmbed
InitDaySpec == InitDay /\ ParseIdle /\ ExpandIdle /\ FetchIdle /\ ReactIdle /\ TypeIdle
SpecDay == InitDaySpec /\ [][NextDay]_vars

(* the Day Index a successful call returned *)
Returned == dayResult.some /\ dayResult.val.kind = "Ok"
DayIndex == dayResult.val.val

(* C5: an event with a valid label that starts 23:59 local on the day asked
   for and ends 00:30 local on the next day is in the Day Index returned. *)
C5_CrossMidnightIncluded ==
    (dayResult.some /\ response.kind = "ok")
    => \A i \in 1..Len(response.events) :
          \A e \in {response.events[i]} :
              (/\ date_naive(e.start) = day
               /\ LocalMinuteOfDay(e.start) = 23 * 60 + 59
               /\ date_naive(e.end) = day + 1
               /\ LocalMinuteOfDay(e.end) = 30
               /\ parse_promo_name(e.group).some)
              => /\ Returned
                 /\ parse_promo_name(e.group).val \in DOMAIN DayIndex
                 /\ e \in Range(DayIndex[parse_promo_name(e.group).val])

(* C6: every event in every bucket of the Day Index returned for a day has
   its local start date on that day. *)
C6_StartsOnDay ==
    Returned
    => \A p \in DOMAIN DayIndex :
          \A i \in 1..Len(DayIndex[p]) : date_naive(DayIndex[p][i].start) = day

(* C12: when the HTTP GET fails, get_sorted_events returns the error value
   fetch_events returned; the failure is not an uncaught fault. *)
C12_TransportFailureTyped ==
    (dayResult.some /\ response.kind = "transport_error")
    => dayResult.val.kind = "Err"

(* C13: when a component of the fetched document lacks a mandatory property,
   the fetch returns an error value and no events; it is not an uncaught
   fault. *)
C13_MissingPropertyTyped ==
    (dayResult.some /\ response.kind = "incomplete")
    => dayResult.val.kind = "Err"

(* the Day Index the call inside make_events_embed built *)
EmbedIndex == get_sorted_events(day, fetch_events(now, response)).value

(* C14: when the Day Index was built and has no bucket for the Promo asked
   for, also when it has buckets of other Promos, make_events_embed returns
   the "no events" text, which is not the text of a failed build, and does
   not fault. *)
C14_NoClassesIsNoFailure ==
    (/\ embed_res.some
     /\ EmbedIndex.kind = "Ok"
     /\ embed_res.val.group \notin DOMAIN EmbedIndex.val)
    => /\ embed_res.val.value = Err(<<"There are no events for ", embed_res.val.group, day>>)
       /\ \A e \in {"Failed to parse calendar!"} :
             embed_res.val.value # Err(<<"Error: ", e>>)

-----------------------------------------------------------------------------
(* SpecFetch: fetch_events called by concurrent tasks while the clock runs
   and the server's answer changes. *)
Responses == FailedResponses \cup {[kind |-> "ok", events |-> f] : f \in FetchFeeds}

InitFetch ==
    /\ now = Epoch
    /\ remote \in Responses
    /\ pc = [c \in Callers |-> "idle"]
    /\ readAt = [c \in Callers |-> 0]
    /\ after = [c \in Callers |-> {}]
    /\ issued = [c \in Callers |-> FALSE]
    /\ ret = [c \in Callers |-> None]
    /\ httpGets = 0

(* lines 68-73: read the clock, return the cache if it is fresh, else issue
   the GET and wait for the answer *)
CallFetch(c) ==
    /\ pc[c] = "idle"
    /\ readAt' = [readAt EXCEPT ![c] = now]
    /\ after' = [after EXCEPT ![c] = {a \in Callers : pc[a] = "done"}]
    /\ IF CacheIsFresh(now)
       THEN /\ ret' = [ret EXCEPT ![c] = Some(Ok(CALENDAR_CACHE.events))]
            /\ pc' = [pc EXCEPT ![c] = "done"]
            /\ UNCHANGED <<issued, httpGets>>
       ELSE /\ pc' = [pc EXCEPT ![c] = "awaiting"]
            /\ issued' = [issued EXCEPT ![c] = TRUE]
            /\ httpGets' = httpGets + 1
            /\ UNCHANGED ret
    /\ UNCHANGED <<now, remote>>
    /\ UNCHANGED <<parseVars, expandVars, dayVars, reactVars, typeVars>>

(* lines 73-156: the answer arrives; the call panics or returns *)
Respond(c) ==
    /\ pc[c] = "awaiting"
    /\ \E r \in {FetchedFrom(remote)} :
          /\ ret' = [ret EXCEPT ![c] = Some(r)]
          /\ pc' = [pc EXCEPT ![c] = IF r.kind = "Panic" THEN "panicked" ELSE "done"]
    /\ UNCHANGED <<now, remote, readAt, after, issued, httpGets>>
    /\ UNCHANGED <<parseVars, expandVars, dayVars, reactVars, typeVars>>

Tick ==
    /\ now < Epoch + MaxTicks * TickMinutes
    /\ now' = now + TickMinutes
    /\ UNCHANGED <<remote, pc, readAt, after, issued, ret, httpGets>>
    /\ UNCHANGED <<parseVars, expandVars, dayVars, reactVars, typeVars>>

RemoteChange ==
    /\ \E r \in Responses \ {remote} : remote' = r
    /\ UNCHANGED <<now, pc, readAt, after, issued, ret, httpGets>>
    /\ UNCHANGED <<parseVars, expandVars, dayVars, reactVars, typeVars>>

NextFetch ==
    \/ \E c \in Callers : CallFetch(c)
    \/ \E c \in Callers : Respond(c)
    \/ Tick
    \/ RemoteChange
InitFetchSpec == InitFetch /\ ParseIdle /\ ExpandIdle /\ DayIdle /\ ReactIdle /\ TypeIdle
SpecFetch == InitFetchSpec /\ [][NextFetch]_vars

Succeeded(c) == pc[c] = "done" /\ ret[c].val.kind = "Ok"

(* C8: a call that starts after a successful call has returned, less than
   the freshness window after that call read the clock, issues no GET and
   returns the same events. *)
C8_CacheHit ==
    \A a, b \in Callers :
        (/\ Succeeded(a)
         /\ a \in after[b]
         /\ readAt[b] - readAt[a] < FreshMinutes)
        => /\ ~issued[b]
           /\ pc[b] = "done" => ret[b] = ret[a]

(* C9: when every caller started before any call had returned and all have
   returned, one GET was issued and every caller holds its result. *)
C9_SingleFlight ==
    (/\ \A c \in Callers : pc[c] = "done"
     /\ \A c \in Callers : after[c] = {})
    => (httpGets = 1 /\ \A a, b \in Callers : ret[a] = ret[b])

(* C17: once a call that issued a GET has returned events, and no other call
   has started, the cache entry holds those events and the time of that
   fetch. *)
C17_CacheReplaced ==
    \A c \in Callers :
        (/\ Succeeded(c)
         /\ issued[c]
         /\ \A o \in Callers \ {c} : pc[o] = "idle")
        => /\ CALENDAR_CACHE.events = ret[c].val.val
           /\ CALENDAR_CACHE.fetched_at \in readAt[c]..now

-----------------------------------------------------------------------------
(* SpecReact: users add the rewind and fast-forward reactions to one tracked
   schedule message; each ReactionAdd event runs event_handler (main.rs
   lines 183-269) in a task of its own.  The Mutex of edt_msgs is taken and
   released inside each of the task's steps, never across an await. *)
Emojis == {"rewind", "fast_forward"}

InitReact ==
    /\ edt_msgs = [date |-> TrackedDate, promo |-> TrackedPromo]
    /\ emoji \in [Reactions -> Emojis]
    /\ handlerPc = [r \in Reactions |-> "start"]
    /\ handlerDate = [r \in Reactions |-> 0]
    /\ handlerPromo = [r \in Reactions |-> None]

(* lines 196-221: the message is tracked; copy the stored date out of the
   map and shift the copy by one day *)
ReadDate(r) ==
    /\ handlerPc[r] = "start"
    /\ handlerDate' = [handlerDate EXCEPT ![r] =
                          IF emoji[r] = "rewind" THEN edt_msgs.date - 1
                          ELSE edt_msgs.date + 1]
    /\ handlerPc' = [handlerPc EXCEPT ![r] = "shifted"]
    /\ UNCHANGED <<edt_msgs, emoji, handlerPromo>>
    /\ UNCHANGED <<parseVars, expandVars, dayVars, fetchVars, typeVars>>

(* lines 223-230: clone the stored promo out of the map *)
ReadPromo(r) ==
    /\ handlerPc[r] = "shifted"
    /\ handlerPromo' = [handlerPromo EXCEPT ![r] = Some(edt_msgs.promo)]
    /\ handlerPc' = [handlerPc EXCEPT ![r] = "rendering"]
    /\ UNCHANGED <<edt_msgs, emoji, handlerDate>>
    /\ UNCHANGED <<parseVars, expandVars, dayVars, fetchVars, typeVars>>

(* lines 232-252: await make_events_embed and the edit of the message; the
   task goes on with an embed or an error text, or ends in a panic (of
   make_events_embed, or of .expect() on the message or the edit) *)
RenderAndEdit(r) ==
    /\ handlerPc[r] = "rendering"
    /\ \E outcome \in {"edited", "panicked"} :
          handlerPc' = [handlerPc EXCEPT ![r] = outcome]
    /\ UNCHANGED <<edt_msgs, emoji, handlerDate, handlerPromo>>
    /\ UNCHANGED <<parseVars, expandVars, dayVars, fetchVars, typeVars>>

(* lines 254-262: insert (date, promo) under the message id, then delete the
   reaction *)
WriteBack(r) ==
    /\ handlerPc[r] = "edited"
    /\ edt_msgs' = [date |-> handlerDate[r], promo |-> handlerPromo[r].val]
    /\ handlerPc' = [handlerPc EXCEPT ![r] = "done"]
    /\ UNCHANGED <<emoji, handlerDate, handlerPromo>>
    /\ UNCHANGED <<parseVars, expandVars, dayVars, fetchVars, typeVars>>

NextReact ==
    \/ \E r \in Reactions : ReadDate(r)
    \/ \E r \in Reactions : ReadPromo(r)
    \/ \E r \in Reactions : RenderAndEdit(r)
    \/ \E r \in Reactions : WriteBack(r)
InitReactSpec == InitReact /\ ParseIdle /\ ExpandIdle /\ DayIdle /\ FetchIdle /\ TypeIdle
SpecReact == InitReactSpec /\ [][NextReact]_vars

Forward == {r \in Reactions : emoji[r] = "fast_forward"}
Backward == {r \in Reactions : emoji[r] = "rewind"}

(* C20: when every reaction has been handled to the end, the stored entry is
   the first date moved by one day per fast-forward and back by one day per
   rewind, with the promo it had. *)
C20_ExactDayOffset ==
    (\A r \in Reactions : handlerPc[r] = "done")
    => edt_msgs = [date |-> TrackedDate + Cardinality(Forward) - Cardinality(Backward),
                   promo |-> TrackedPromo]

-----------------------------------------------------------------------------
(* SpecType: the event_type of one component, by its summary.  A summary is
   some leading text, a code or something close to one, some trailing text. *)
TypePrefixes ==
    {<<>>, <<"X", " ">>, <<"E", "v", "a", "l", " ">>,
     <<"A", "B", "C", "D", "E", "F", "T", "D", " ">>,
     <<EAcute, " ">>, <<"a", EAcute, EAcute, EAcute>>}
TypeHeads ==
    {<<l, d, m, "0", "1", sep>> :
        l \in {"S", "R"}, d \in {"1", "9"}, m \in {".", "x", EAcute}, sep \in {"-", "_"}}
    \cup {<<"S", "0", ".", "0", "1", "-">>, <<"T", "1", ".", "0", "1", "-">>,
          <<"S", "1", ".", "0", "1", "+">>, <<"S", "1", ".", "0", "-">>}
TypeTails == TypeCodes \cup {<<"X", "X">>, <<"c", "m">>}
TypeSuffixes == {<<>>, <<" ", "e", "v", "a", "l">>}
Summaries ==
    {p \o h \o t \o x :
        p \in TypePrefixes, h \in TypeHeads, t \in TypeTails, x \in TypeSuffixes}
    \cup {<<>>, <<"C", "M">>}

InitType ==
    /\ eventSummary \in Summaries
    /\ event_type = None

(* lines 137-147 *)
Classify ==
    /\ ~event_type.some
    /\ event_type' = Some(classify(eventSummary))
    /\ UNCHANGED eventSummary
    /\ UNCHANGED <<parseVars, expandVars, dayVars, fetchVars, reactVars>>

NextType == Classify
InitTypeSpec == InitType /\ ParseIdle /\ ExpandIdle /\ DayIdle /\ FetchIdle /\ ReactIdle
SpecType == InitTypeSpec /\ [][NextType]_vars

(* the types the codes of a summary name *)
NamedTypes(s) ==
    {EventTypeOf(SubSeq(s, i + 6, i + 7)) : i \in {k \in 1..Len(s) : ClassTypeRegexAt(s, k)}}

(* C21: the event_type of a summary that holds a code is the CM, TD or TP
   the code names, wherever the code sits, and computing it does not fault;
   the event_type of a summary without a code is OTHER. *)
C21_TypeFromCode ==
    event_type.some
    => /\ event_type.val.kind = "Ok"
       /\ IF NamedTypes(eventSummary) # {}
          THEN event_type.val.val \in NamedTypes(eventSummary)
          ELSE event_type.val.val = "OTHER"

====
